---- MODULE Spec2Model ----
(***************************************************************************)
(* A model of pyro/infer/trace_elbo.py: the trace-pair generator           *)
(* Trace_ELBO._get_traces, the two estimators Trace_ELBO.loss and          *)
(* Trace_ELBO.loss_and_grads, and the helper compute_site_log_r.           *)
(*                                                                         *)
(* Tensors are modelled by integers: every site lies outside any iarange,  *)
(* so batch_log_pdf, log_pdf and the score parts of a site are 0-dim and   *)
(* n_compatible_indices / sum_leftmost_all_but / contract leave them as    *)
(* they are.  A running total that the code divides by num_particles is    *)
(* kept as its numerator over the common denominator num_particles.        *)
(* The sampled values of sample sites are not read by this file and are    *)
(* not modelled; the value of a param site is the identity of its tensor.  *)
(***************************************************************************)
EXTENDS Integers, Sequences, FiniteSets

\* Largest num_particles a call is configured with.
MaxParticles == 2

VARIABLES
    num_particles,    \* self.num_particles
    mode,             \* which estimator the call runs: "none", "loss", "loss_and_grads"
    pc,               \* position of the call (generator and consumer share one thread)
    i,                \* loop variable of _get_traces
    guide_trace,      \* the generator's guide_trace (a sequence of site records)
    model_trace,      \* the generator's model_trace
    elbo,             \* the estimator's running total (numerator over num_particles)
    elbo_particle,    \* loss_and_grads: elbo_particle
    surrogate,        \* loss_and_grads: surrogate_elbo_particle, [val, rg]
    site_idx,         \* loss_and_grads: position of the loop over model_trace.nodes
    trainable_params, \* loss_and_grads: trainable_params
    grads,            \* parameter-gradient accumulators: backward passes added, per tensor
    active,           \* the parameter store's active set
    ret,              \* <<"none">> or <<"value", n>>: the returned loss (numerator)
    err,              \* "none" or the exception that left the call
    log,              \* history: the events of the call, in order
    yielded,          \* history: the pair as it was when the generator yielded it
    log_r_calls       \* history: the compute_site_log_r calls of the current particle

vars == <<num_particles, mode, pc, i, guide_trace, model_trace, elbo, elbo_particle,
          surrogate, site_idx, trainable_params, grads, active, ret, err, log,
          yielded, log_r_calls>>

\* Identities of the parameter tensors a param site can hold.
Tensors == {"t1", "t2"}

(***************************************************************************)
(* Site records and traces                                                 *)
(***************************************************************************)

\* A sample site as the trace engine records it; lp is what fn.log_prob(value)
\* evaluates to, rg whether that tensor requires gradients.  The density
\* fields are filled in by compute_batch_log_pdf / compute_score_parts.
SampleSite(name, observed, lp, reparam, rg, aux, sub, nest_ok) ==
    [name |-> name, type |-> "sample", is_observed |-> observed, value |-> "v",
     lp |-> lp, reparam |-> reparam, rg |-> rg, aux |-> aux, subsample |-> sub,
     nest_ok |-> nest_ok, log_pdf |-> 0, batch_log_pdf |-> 0,
     score_parts |-> <<0, 0, 0>>]

\* A param site; value is the parameter tensor.
ParamSite(name, tensor) ==
    [name |-> name, type |-> "param", is_observed |-> FALSE, value |-> tensor,
     lp |-> 0, reparam |-> FALSE, rg |-> FALSE, aux |-> FALSE, subsample |-> FALSE,
     nest_ok |-> TRUE, log_pdf |-> 0, batch_log_pdf |-> 0,
     score_parts |-> <<0, 0, 0>>]

Range(s) == {s[k] : k \in 1..Len(s)}

Names(trace) == {s.name : s \in Range(trace)}

\* trace.nodes[name]
Node(trace, name) == CHOOSE s \in Range(trace) : s.name = name

\* The subsample site that an iarange with subsampling records before the
\* sites it encloses.
SubsampleSite == SampleSite("i", FALSE, 0, FALSE, FALSE, FALSE, TRUE, TRUE)

\* The traces one execution of the guide can record: an optional param q, an
\* optional latent site x (reparameterized or not), an optional latent site
\* z inside a subsampling iarange (within the declared nesting or not), and
\* an optional auxiliary site u.
GuideTraces ==
    { q \o x \o z \o u :
        q \in {<<>>, <<ParamSite("q", "t1")>>},
        x \in {<<>>,
               <<SampleSite("x", FALSE, -1, FALSE, TRUE, FALSE, FALSE, TRUE)>>,
               <<SampleSite("x", FALSE, -1, TRUE, TRUE, FALSE, FALSE, TRUE)>>},
        z \in {<<>>,
               <<SubsampleSite,
                 SampleSite("z", FALSE, -1, FALSE, TRUE, FALSE, FALSE, TRUE)>>,
               <<SubsampleSite,
                 SampleSite("z", FALSE, -1, FALSE, TRUE, FALSE, FALSE, FALSE)>>},
        u \in {<<>>, <<SampleSite("u", FALSE, -1, TRUE, FALSE, TRUE, FALSE, TRUE)>>} }

\* The traces one execution of the model, replayed against a guide trace, can
\* record: an optional param p, optional latent sites x and z (z inside the
\* subsampling iarange), and an optional observed site y (within the declared
\* nesting or not).
ModelTraces ==
    { p \o x \o z \o y :
        p \in {<<>>, <<ParamSite("p", "t1")>>, <<ParamSite("p", "t2")>>},
        x \in {<<>>, <<SampleSite("x", FALSE, -3, FALSE, FALSE, FALSE, FALSE, TRUE)>>},
        z \in {<<>>,
               <<SubsampleSite,
                 SampleSite("z", FALSE, -3, FALSE, FALSE, FALSE, FALSE, TRUE)>>},
        y \in {<<>>,
               <<SampleSite("y", TRUE, -5, FALSE, FALSE, FALSE, FALSE, TRUE)>>,
               <<SampleSite("y", TRUE, -5, FALSE, FALSE, FALSE, FALSE, FALSE)>>} }

NoTrace == <<>>

Event(p, ev, arg) == [p |-> p, ev |-> ev, arg |-> arg]

(***************************************************************************)
(* The collaborators of the generator                                      *)
(***************************************************************************)

\* check_model_guide_match: every non-auxiliary sample site of the guide has
\* a latent site of that name in the model, and every latent site of the
\* model has a guide site.
check_model_guide_match(mt, gt) ==
    LET model_vars == {s.name : s \in {t \in Range(mt) :
                          t.type = "sample" /\ ~t.is_observed /\ ~t.subsample}}
        guide_vars == {s.name : s \in {t \in Range(gt) :
                          t.type = "sample" /\ ~t.subsample}}
        aux_vars == {s.name : s \in {t \in Range(gt) : t.type = "sample" /\ t.aux}}
    IN  /\ guide_vars \subseteq (model_vars \cup aux_vars)
        /\ model_vars \subseteq guide_vars

\* prune_subsample_sites: the trace without its bookkeeping-only sites.
prune_subsample_sites(trace) == SelectSeq(trace, LAMBDA s : ~s.subsample)

\* Trace.compute_batch_log_pdf: fills batch_log_pdf and log_pdf of every
\* sample site.
compute_batch_log_pdf(trace) ==
    [k \in 1..Len(trace) |->
        IF trace[k].type = "sample"
        THEN [trace[k] EXCEPT !.batch_log_pdf = trace[k].lp, !.log_pdf = trace[k].lp]
        ELSE trace[k]]

\* Trace.compute_score_parts: fills score_parts = (log_pdf, score_function,
\* entropy_term), batch_log_pdf and log_pdf of every sample site.  A
\* reparameterized site has score_function 0, any other has entropy_term 0.
compute_score_parts(trace) ==
    [k \in 1..Len(trace) |->
        IF trace[k].type = "sample"
        THEN [trace[k] EXCEPT
                !.batch_log_pdf = trace[k].lp, !.log_pdf = trace[k].lp,
                !.score_parts = IF trace[k].reparam
                                THEN <<trace[k].lp, 0, trace[k].lp>>
                                ELSE <<trace[k].lp, trace[k].lp, 0>>]
        ELSE trace[k]]

\* check_site_shape holds of every sample site of the trace.
check_site_shapes(trace) ==
    \A s \in Range(trace) : s.type = "sample" => s.nest_ok

\* Trace.log_pdf(): the total log-density of the sample sites.
RECURSIVE SumLogPdf(_, _)
SumLogPdf(trace, k) ==
    IF k > Len(trace) THEN 0
    ELSE (IF trace[k].type = "sample" THEN trace[k].log_pdf ELSE 0)
         + SumLogPdf(trace, k + 1)

log_pdf(trace) == SumLogPdf(trace, 1)

is_identically_zero(x) == x = 0

(***************************************************************************)
(* compute_site_log_r                                                      *)
(***************************************************************************)

\* log_r_term -= guide_log_pdf, where log_r_term is model_site["batch_log_pdf"]
\* itself: the subtraction is done in place on the tensor the site holds.
isub_guide_log_pdf(model_site, guide_log_pdf) ==
    [model_site EXCEPT !.batch_log_pdf = model_site.batch_log_pdf - guide_log_pdf]

\* The loop of compute_site_log_r from position k on: the model trace as the
\* loop leaves it, the accumulated log_r and the term used for each site.
RECURSIVE LogRLoop(_, _, _, _, _)
LogRLoop(mt, gt, k, log_r, terms) ==
    IF k > Len(mt) THEN [trace |-> mt, log_r |-> log_r, terms |-> terms]
    ELSE IF mt[k].type # "sample" THEN LogRLoop(mt, gt, k + 1, log_r, terms)
    ELSE IF mt[k].is_observed
         THEN LogRLoop(mt, gt, k + 1, log_r + mt[k].batch_log_pdf,
                       Append(terms, <<mt[k].name, mt[k].batch_log_pdf>>))
         ELSE LET guide_log_pdf == Node(gt, mt[k].name).score_parts[1]
                  site == isub_guide_log_pdf(mt[k], guide_log_pdf)
              IN  LogRLoop([mt EXCEPT ![k] = site], gt, k + 1,
                           log_r + site.batch_log_pdf,
                           Append(terms, <<site.name, site.batch_log_pdf>>))

compute_site_log_r(mt, gt, target_site) ==
    LogRLoop(mt, gt, 1, 0, <<>>)

(***************************************************************************)
(* The call                                                                *)
(***************************************************************************)

Init ==
    /\ num_particles \in 0..MaxParticles
    /\ mode = "none"
    /\ pc = "idle"
    /\ i = 0
    /\ guide_trace = NoTrace
    /\ model_trace = NoTrace
    /\ elbo = 0
    /\ elbo_particle = 0
    /\ surrogate = [val |-> 0, rg |-> FALSE]
    /\ site_idx = 0
    /\ trainable_params = {}
    /\ grads = [t \in Tensors |-> 0]
    /\ active = {}
    /\ ret = <<"none">>
    /\ err = "none"
    /\ log = <<>>
    /\ yielded = <<NoTrace, NoTrace>>
    /\ log_r_calls = <<>>

\* An exception leaves the generator and, uncaught, the estimator.
Raise(e) ==
    /\ pc' = "raised"
    /\ err' = e

\* loss: elbo = 0.0, then the for statement asks the generator for a pair.
CallLoss ==
    /\ pc = "idle"
    /\ mode' = "loss"
    /\ elbo' = 0
    /\ pc' = "for"
    /\ UNCHANGED <<num_particles, i, guide_trace, model_trace, elbo_particle, surrogate,
                   site_idx, trainable_params, grads, active, ret, err, log, yielded,
                   log_r_calls>>

\* loss_and_grads: elbo = 0.0, then the for statement asks for a pair.
CallLossAndGrads ==
    /\ pc = "idle"
    /\ mode' = "loss_and_grads"
    /\ elbo' = 0
    /\ pc' = "for"
    /\ UNCHANGED <<num_particles, i, guide_trace, model_trace, elbo_particle, surrogate,
                   site_idx, trainable_params, grads, active, ret, err, log, yielded,
                   log_r_calls>>

\* for i in range(self.num_particles): the next particle, or the end of the
\* generator, which ends the estimator's loop.
ForParticle ==
    /\ pc = "for"
    /\ pc' = IF i < num_particles THEN "guide" ELSE "return"
    /\ UNCHANGED <<num_particles, mode, i, guide_trace, model_trace, elbo, elbo_particle,
                   surrogate, site_idx, trainable_params, grads, active, ret, err, log,
                   yielded, log_r_calls>>

\* guide_trace = poutine.trace(guide).get_trace(...)
GuideExec ==
    /\ pc = "guide"
    /\ \E gt \in GuideTraces : guide_trace' = gt
    /\ log' = Append(log, Event(i, "guide", {}))
    /\ pc' = "replay"
    /\ UNCHANGED <<num_particles, mode, i, model_trace, elbo, elbo_particle, surrogate,
                   site_idx, trainable_params, grads, active, ret, err, yielded,
                   log_r_calls>>

\* model_trace = poutine.trace(poutine.replay(model, guide_trace)).get_trace(...)
ModelReplay ==
    /\ pc = "replay"
    /\ \E mt \in ModelTraces : model_trace' = mt
    /\ log' = Append(log, Event(i, "model", {}))
    /\ pc' = "check"
    /\ UNCHANGED <<num_particles, mode, i, guide_trace, elbo, elbo_particle, surrogate,
                   site_idx, trainable_params, grads, active, ret, err, yielded,
                   log_r_calls>>

\* Mutant of CheckMatch: a mismatch is only warned about and the particle goes
\* on.
CheckMatchWarnOnly ==
    /\ pc = "check"
    /\ log' = Append(log, Event(i, "check", {}))
    /\ pc' = "prune"
    /\ UNCHANGED <<num_particles, mode, i, guide_trace, model_trace, elbo, elbo_particle,
                   surrogate, site_idx, trainable_params, grads, active, ret, err,
                   yielded, log_r_calls>>

\* check_model_guide_match(model_trace, guide_trace)
CheckMatch ==
    /\ pc = "check"
    /\ log' = Append(log, Event(i, "check", {}))
    /\ IF check_model_guide_match(model_trace, guide_trace)
       THEN pc' = "prune" /\ err' = err
       ELSE Raise("mismatch")
    /\ UNCHANGED <<num_particles, mode, i, guide_trace, model_trace, elbo, elbo_particle,
                   surrogate, site_idx, trainable_params, grads, active, ret, yielded,
                   log_r_calls>>

\* guide_trace = prune_subsample_sites(guide_trace), and the same for the model
Prune ==
    /\ pc = "prune"
    /\ guide_trace' = prune_subsample_sites(guide_trace)
    /\ model_trace' = prune_subsample_sites(model_trace)
    /\ log' = Append(log, Event(i, "prune", {}))
    /\ pc' = "logpdf"
    /\ UNCHANGED <<num_particles, mode, i, elbo, elbo_particle, surrogate, site_idx,
                   trainable_params, grads, active, ret, err, yielded, log_r_calls>>

\* Mutant of ComputeLogPdfs: the pair is yielded without the shape checks.
ComputeLogPdfsThenYield ==
    /\ pc = "logpdf"
    /\ model_trace' = compute_batch_log_pdf(model_trace)
    /\ guide_trace' = compute_score_parts(guide_trace)
    /\ log' = Append(log, Event(i, "logpdf", {}))
    /\ pc' = "yield"
    /\ UNCHANGED <<num_particles, mode, i, elbo, elbo_particle, surrogate, site_idx,
                   trainable_params, grads, active, ret, err, yielded, log_r_calls>>

\* model_trace.compute_batch_log_pdf(); guide_trace.compute_score_parts()
ComputeLogPdfs ==
    /\ pc = "logpdf"
    /\ model_trace' = compute_batch_log_pdf(model_trace)
    /\ guide_trace' = compute_score_parts(guide_trace)
    /\ log' = Append(log, Event(i, "logpdf", {}))
    /\ pc' = "shapes"
    /\ UNCHANGED <<num_particles, mode, i, elbo, elbo_particle, surrogate, site_idx,
                   trainable_params, grads, active, ret, err, yielded, log_r_calls>>

\* check_site_shape on every sample site of the model trace, then of the guide
\* trace
CheckShapes ==
    /\ pc = "shapes"
    /\ log' = Append(log, Event(i, "shapes", {}))
    /\ IF check_site_shapes(model_trace) /\ check_site_shapes(guide_trace)
       THEN pc' = "yield" /\ err' = err
       ELSE Raise("shape")
    /\ UNCHANGED <<num_particles, mode, i, guide_trace, model_trace, elbo, elbo_particle,
                   surrogate, site_idx, trainable_params, grads, active, ret, yielded,
                   log_r_calls>>

\* yield model_trace, guide_trace: control passes to the body of the
\* estimator's for statement.
Yield ==
    /\ pc = "yield"
    /\ yielded' = <<model_trace, guide_trace>>
    /\ log' = Append(log, Event(i, "yield", {}))
    /\ pc' = IF mode = "loss" THEN "loss_body" ELSE "lag_body"
    /\ UNCHANGED <<num_particles, mode, i, guide_trace, model_trace, elbo, elbo_particle,
                   surrogate, site_idx, trainable_params, grads, active, ret, err,
                   log_r_calls>>

\* Mutant of LossBody: loss runs a backward pass on the particle's value.
LossBodyWithBackward ==
    /\ pc = "loss_body"
    /\ elbo' = elbo + (log_pdf(model_trace) - log_pdf(guide_trace))
    /\ grads' = [t \in Tensors |->
                    IF \E s \in Range(model_trace) \cup Range(guide_trace) :
                           s.type = "param" /\ s.value = t
                    THEN grads[t] + 1 ELSE grads[t]]
    /\ log' = Append(log, Event(i, "loss", {}))
    /\ pc' = "particle_done"
    /\ UNCHANGED <<num_particles, mode, i, guide_trace, model_trace, elbo_particle,
                   surrogate, site_idx, trainable_params, active, ret, err,
                   yielded, log_r_calls>>

\* loss, the body of the for statement:
\* elbo_particle = (model_trace.log_pdf() - guide_trace.log_pdf()).item()
\* elbo += elbo_particle / self.num_particles
LossBody ==
    /\ pc = "loss_body"
    /\ elbo' = elbo + (log_pdf(model_trace) - log_pdf(guide_trace))
    /\ log' = Append(log, Event(i, "loss", {}))
    /\ pc' = "particle_done"
    /\ UNCHANGED <<num_particles, mode, i, guide_trace, model_trace, elbo_particle,
                   surrogate, site_idx, trainable_params, grads, active, ret, err,
                   yielded, log_r_calls>>

\* loss_and_grads, the body of the for statement: elbo_particle = 0,
\* surrogate_elbo_particle = 0, and the loop over model_trace.nodes starts.
LagBody ==
    /\ pc = "lag_body"
    /\ elbo_particle' = 0
    /\ surrogate' = [val |-> 0, rg |-> FALSE]
    /\ site_idx' = 1
    /\ trainable_params' = {}
    /\ log_r_calls' = <<>>
    /\ pc' = "sites"
    /\ UNCHANGED <<num_particles, mode, i, guide_trace, model_trace, elbo, grads, active,
                   ret, err, log, yielded>>

\* surrogate + v, where the tensor v requires gradients iff rg: the sum
\* requires gradients iff one of the two does (the int 0 does not).
TensorAdd(sur, v, rg) == [val |-> sur.val + v, rg |-> sur.rg \/ rg]

\* One iteration of "for name, model_site in model_trace.nodes.items()".
SiteStep ==
    /\ pc = "sites"
    /\ site_idx <= Len(model_trace)
    /\ LET model_site == model_trace[site_idx]
           name == model_site.name
           model_log_pdf == model_site.log_pdf
       IN  IF model_site.type # "sample"
           THEN /\ pc' = pc
                /\ UNCHANGED <<elbo_particle, surrogate, model_trace, log_r_calls, err>>
           ELSE IF model_site.is_observed
           THEN /\ elbo_particle' = elbo_particle + model_log_pdf
                /\ surrogate' = TensorAdd(surrogate, model_log_pdf, model_site.rg)
                /\ pc' = pc
                /\ UNCHANGED <<model_trace, log_r_calls, err>>
           ELSE IF name \notin Names(guide_trace)
           THEN /\ Raise("KeyError")
                /\ UNCHANGED <<elbo_particle, surrogate, model_trace, log_r_calls>>
           ELSE LET guide_site == Node(guide_trace, name)
                    guide_log_pdf == guide_site.score_parts[1]
                    score_function_term == guide_site.score_parts[2]
                    entropy_term == guide_site.score_parts[3]
                    s1 == TensorAdd(surrogate, model_log_pdf, model_site.rg)
                    s2 == IF ~is_identically_zero(entropy_term)
                          THEN TensorAdd(s1, -entropy_term, guide_site.rg)
                          ELSE s1
                    r == compute_site_log_r(model_trace, guide_trace, name)
                IN  /\ elbo_particle' = elbo_particle + model_log_pdf - guide_log_pdf
                    /\ pc' = pc
                    /\ err' = err
                    /\ IF ~is_identically_zero(score_function_term)
                       THEN /\ surrogate' = TensorAdd(s2, r.log_r * score_function_term,
                                                      guide_site.rg)
                            /\ model_trace' = r.trace
                            /\ log_r_calls' = Append(log_r_calls,
                                   [target |-> name, terms |-> r.terms,
                                    result |-> r.log_r])
                       ELSE /\ surrogate' = s2
                            /\ UNCHANGED <<model_trace, log_r_calls>>
    /\ site_idx' = site_idx + 1
    /\ UNCHANGED <<num_particles, mode, i, guide_trace, elbo, trainable_params, grads,
                   active, ret, log, yielded>>

\* Mutant of CollectParams: only the model trace is searched.
CollectParamsModelOnly(mt, gt) ==
    {s.value : s \in {t \in Range(mt) : t.type = "param"}}

\* set(site["value"] for trace in (model_trace, guide_trace)
\*     for site in trace.nodes.values() if site["type"] == "param")
CollectParams(mt, gt) ==
    {s.value : s \in {t \in Range(mt) \cup Range(gt) : t.type = "param"}}

\* Mutant of BackwardGuard: requires_grad is not looked at.
BackwardGuardParamsOnly(params, sur) == params # {}

\* if trainable_params and getattr(surrogate_elbo_particle, 'requires_grad', False)
BackwardGuard(params, sur) == params # {} /\ sur.rg

\* After the loop over the sites: elbo += elbo_particle / self.num_particles,
\* the parameters are collected and the guard of the backward pass is taken.
SitesDone ==
    /\ pc = "sites"
    /\ site_idx > Len(model_trace)
    /\ elbo' = elbo + elbo_particle
    /\ trainable_params' = CollectParams(model_trace, guide_trace)
    /\ log' = Append(log, Event(i, "sites", {}))
    /\ pc' = IF BackwardGuard(trainable_params', surrogate)
             THEN "backward" ELSE "particle_done"
    /\ UNCHANGED <<num_particles, mode, i, guide_trace, model_trace, elbo_particle,
                   surrogate, site_idx, grads, active, ret, err, yielded, log_r_calls>>

\* Mutant of Backward: the backward pass reaches no parameter.
BackwardDetached ==
    /\ pc = "backward"
    /\ log' = Append(log, Event(i, "backward", {}))
    /\ pc' = "mark"
    /\ UNCHANGED <<num_particles, mode, i, guide_trace, model_trace, elbo, elbo_particle,
                   surrogate, site_idx, trainable_params, grads, active, ret, err,
                   yielded, log_r_calls>>

\* surrogate_loss_particle = -surrogate_elbo_particle / self.num_particles
\* surrogate_loss_particle.backward(): one more contribution is added to the
\* gradient accumulator of each parameter of the particle.
Backward ==
    /\ pc = "backward"
    /\ grads' = [t \in Tensors |->
                    IF t \in trainable_params THEN grads[t] + 1 ELSE grads[t]]
    /\ log' = Append(log, Event(i, "backward", {}))
    /\ pc' = "mark"
    /\ UNCHANGED <<num_particles, mode, i, guide_trace, model_trace, elbo, elbo_particle,
                   surrogate, site_idx, trainable_params, active, ret, err, yielded,
                   log_r_calls>>

\* pyro.get_param_store().mark_params_active(trainable_params)
MarkParamsActive ==
    /\ pc = "mark"
    /\ active' = active \cup trainable_params
    /\ log' = Append(log, Event(i, "mark", trainable_params))
    /\ pc' = "particle_done"
    /\ UNCHANGED <<num_particles, mode, i, guide_trace, model_trace, elbo, elbo_particle,
                   surrogate, site_idx, trainable_params, grads, ret, err, yielded,
                   log_r_calls>>

\* The body is over: the for statement resumes the generator after its
\* yield, which goes round its own loop.  The names the next particle binds
\* anew (the traces and the per-particle accumulators) are cleared.
Resume ==
    /\ pc = "particle_done"
    /\ i' = i + 1
    /\ pc' = "for"
    /\ guide_trace' = NoTrace
    /\ model_trace' = NoTrace
    /\ yielded' = <<NoTrace, NoTrace>>
    /\ elbo_particle' = 0
    /\ surrogate' = [val |-> 0, rg |-> FALSE]
    /\ site_idx' = 0
    /\ trainable_params' = {}
    /\ log_r_calls' = <<>>
    /\ UNCHANGED <<num_particles, mode, elbo, grads, active, ret, err, log>>

\* loss = -elbo; return loss
Return ==
    /\ pc = "return"
    /\ ret' = <<"value", -elbo>>
    /\ pc' = "returned"
    /\ UNCHANGED <<num_particles, mode, i, guide_trace, model_trace, elbo, elbo_particle,
                   surrogate, site_idx, trainable_params, grads, active, err, log,
                   yielded, log_r_calls>>

Next ==
    \/ CallLoss
    \/ CallLossAndGrads
    \/ ForParticle
    \/ GuideExec
    \/ ModelReplay
    \/ CheckMatch
    \/ Prune
    \/ ComputeLogPdfs
    \/ CheckShapes
    \/ Yield
    \/ LossBody
    \/ LagBody
    \/ SiteStep
    \/ SitesDone
    \/ Backward
    \/ MarkParamsActive
    \/ Resume
    \/ Return

Spec == Init /\ [][Next]_vars

(***************************************************************************)
(* Properties                                                              *)
(***************************************************************************)

\* The positions of the log that hold event ev of particle p.
EventsOf(p, ev) == {k \in 1..Len(log) : log[k].p = p /\ log[k].ev = ev}

EventsNamed(ev) == {k \in 1..Len(log) : log[k].ev = ev}

Particles == 0..(num_particles - 1)

\* The parameter tensors of the param sites of the yielded pair.
YieldedParams ==
    {s.value : s \in {t \in Range(yielded[1]) \cup Range(yielded[2]) :
                         t.type = "param"}}

InBody == pc \in {"loss_body", "lag_body", "sites", "backward", "mark", "particle_done"}

\* C1 as stated: a completed loss_and_grads call with num_particles = N has
\* made exactly one backward invocation for every particle, N in all,
\* whatever the model/guide pair.
C1_OneBackwardPerParticle ==
    (mode = "loss_and_grads" /\ pc = "returned") =>
        /\ \A p \in Particles : Cardinality(EventsOf(p, "backward")) = 1
        /\ Cardinality(EventsNamed("backward")) = num_particles

\* C1 as amended: when the body of a particle is over, backward has been
\* invoked exactly once for it if its traces hold a param site and its
\* surrogate requires gradients, and not at all otherwise; a completed call
\* has made at most one backward invocation per particle.
C1_BackwardIffTrainable ==
    /\ (mode = "loss_and_grads" /\ pc = "particle_done") =>
          Cardinality(EventsOf(i, "backward")) =
              (IF YieldedParams # {} /\ surrogate.rg THEN 1 ELSE 0)
    /\ (mode = "loss_and_grads" /\ pc = "returned") =>
          /\ \A p \in Particles : Cardinality(EventsOf(p, "backward")) <= 1
          /\ \A k \in EventsNamed("backward") : log[k].p \in Particles

\* A completed two-particle call in which one particle ran backward and the
\* other did not.
C1_Witness ==
    /\ mode = "loss_and_grads" /\ pc = "returned" /\ num_particles = 2
    /\ Cardinality(EventsNamed("backward")) = 1

\* C2: with num_particles = 0 neither loss nor loss_and_grads returns a loss
\* value; the call ends in an error.
C2_ZeroParticlesIsAnError ==
    num_particles = 0 => (ret = <<"none">> /\ pc # "returned")

\* C3: once a pair has been yielded it is read-only: through the whole body
\* of the for statement both traces are as they were yielded.
C3_YieldedPairReadOnly ==
    InBody => (model_trace = yielded[1] /\ guide_trace = yielded[2])

\* C4: for every pair the generator yields, the elbo_particle that
\* loss_and_grads accumulates over the sites equals what loss computes,
\* model_trace.log_pdf() - guide_trace.log_pdf().
C4_SameParticleValue ==
    (mode = "loss_and_grads" /\ pc = "sites" /\ site_idx > Len(model_trace)) =>
        elbo_particle = log_pdf(yielded[1]) - log_pdf(yielded[2])

\* C5: loss has no gradient side effects: during and after a call to loss no
\* backward pass and no mark_params_active call has happened, and the
\* gradient accumulators and the active set are as before the call.
C5_LossHasNoGradientEffects ==
    mode = "loss" =>
        /\ grads = [t \in Tensors |-> 0]
        /\ active = {}
        /\ EventsNamed("backward") = {}
        /\ EventsNamed("mark") = {}

\* A call to loss handles, as its second particle, a pair with two
\* parameter tensors and a guide site whose density requires gradients: a
\* pair for which loss_and_grads runs the backward pass.
C5_Witness ==
    /\ mode = "loss" /\ pc = "particle_done" /\ i = 1
    /\ YieldedParams = {"t1", "t2"}
    /\ \E s \in Range(yielded[2]) : s.type = "sample" /\ s.rg

\* C6: a structural mismatch or a shape violation leaves the call at once:
\* the failing check is the last event, the pair of that particle is never
\* yielded, no loss is returned, and every pair that is yielded passed both
\* checks.
C6_FailurePropagates ==
    /\ err \in {"mismatch", "shape"} =>
          /\ pc = "raised"
          /\ ret = <<"none">>
          /\ EventsOf(i, "yield") = {}
          /\ Len(log) > 0
          /\ log[Len(log)] = Event(i, IF err = "mismatch" THEN "check" ELSE "shapes", {})
    /\ InBody =>
          /\ EventsOf(i, "yield") # {}
          /\ check_model_guide_match(yielded[1], yielded[2])
          /\ check_site_shapes(yielded[1])
          /\ check_site_shapes(yielded[2])
    /\ pc \in {"prune", "logpdf", "shapes", "yield"} =>
          check_model_guide_match(model_trace, guide_trace)

\* The second particle fails the match check because the guide has a
\* non-auxiliary sample site with no model site of that name.
C6_Witness ==
    /\ pc = "raised" /\ err = "mismatch" /\ i = 1
    /\ \E s \in Range(guide_trace) :
          s.type = "sample" /\ ~s.aux /\ ~s.subsample /\ s.name \notin Names(model_trace)

\* The place of an event in the order of a particle's events.
Rank(ev) ==
    CASE ev = "guide" -> 1
      [] ev = "model" -> 2
      [] ev = "check" -> 3
      [] ev = "prune" -> 4
      [] ev = "logpdf" -> 5
      [] ev = "shapes" -> 6
      [] ev = "yield" -> 7
      [] ev = "sites" -> 8
      [] ev = "backward" -> 9
      [] ev = "mark" -> 10
      [] OTHER -> 0

\* Event b may directly follow event a in a loss_and_grads call: it is the
\* next event of the same particle, or the guide execution of the next
\* particle after the last event (sites, or mark after a backward pass) of
\* this one.
Follows(a, b) ==
    IF b.p = a.p
    THEN Rank(a.ev) > 0 /\ Rank(b.ev) = Rank(a.ev) + 1
    ELSE b.p = a.p + 1 /\ b.ev = "guide" /\ a.ev \in {"sites", "mark"}

\* C7: within one loss_and_grads call the particles are processed strictly in
\* sequence: the events of a particle happen in the order guide, model
\* replay, match check, pruning, log-densities, shape checks, yield, site
\* accumulation, backward, mark_params_active, and the guide of the next
\* particle starts only after the last of them.  The log only grows at its
\* end, so it is enough that in every state the latest event follows the one
\* before it.
C7_ParticlesInSequence ==
    (mode = "loss_and_grads" /\ Len(log) > 0) =>
        IF Len(log) = 1
        THEN log[1] = Event(0, "guide", {})
        ELSE Follows(log[Len(log) - 1], log[Len(log)])

\* A completed call whose second particle started after the first ran its
\* backward pass and marked its parameters.
C7_Witness ==
    /\ mode = "loss_and_grads" /\ pc = "returned" /\ num_particles = 2
    /\ \E k \in 1..(Len(log) - 1) :
          log[k].ev = "mark" /\ log[k].p = 0 /\ log[k + 1].ev = "guide"
    /\ EventsOf(1, "backward") # {}

\* C8 as stated: a completed loss_and_grads call with num_particles = N has
\* called mark_params_active once for every particle, N times in all.
C8_OneMarkPerParticle ==
    (mode = "loss_and_grads" /\ pc = "returned") =>
        /\ \A p \in Particles : Cardinality(EventsOf(p, "mark")) = 1
        /\ Cardinality(EventsNamed("mark")) = num_particles

\* C8 as amended: when the body of a particle is over, mark_params_active
\* has been called exactly once for it, with exactly the distinct values of
\* the param sites of its two traces, if there is such a site and the
\* surrogate requires gradients, and not at all otherwise; a completed call
\* has made at most one such call per particle.
C8_MarkIffTrainable ==
    /\ (mode = "loss_and_grads" /\ pc = "particle_done") =>
          IF YieldedParams # {} /\ surrogate.rg
          THEN /\ Cardinality(EventsOf(i, "mark")) = 1
               /\ \A k \in EventsOf(i, "mark") : log[k].arg = YieldedParams
               /\ YieldedParams \subseteq active
          ELSE EventsOf(i, "mark") = {}
    /\ (mode = "loss_and_grads" /\ pc = "returned") =>
          /\ \A p \in Particles : Cardinality(EventsOf(p, "mark")) <= 1
          /\ \A k \in EventsNamed("mark") : log[k].p \in Particles

\* A particle whose model and guide param sites hold the same tensor: the
\* set passed to mark_params_active has one element.
C8_Witness ==
    /\ mode = "loss_and_grads" /\ pc = "particle_done"
    /\ \E k \in EventsOf(i, "mark") : log[k].arg = {"t1"}
    /\ Cardinality({s \in Range(yielded[1]) \cup Range(yielded[2]) : s.type = "param"}) = 2

\* C9: every compute_site_log_r call on a pair uses, for each sample site of
\* the model trace, batch_log_pdf alone when the site is observed and
\* batch_log_pdf minus the guide log-density, subtracted once, when it is
\* not; so two calls on the same pair use the same terms.
C9_LogRTermsOfYieldedPair ==
    \A c \in 1..Len(log_r_calls) :
        \A k \in 1..Len(log_r_calls[c].terms) :
            LET name == log_r_calls[c].terms[k][1]
                site == Node(yielded[1], name)
            IN  log_r_calls[c].terms[k][2] =
                    IF site.is_observed
                    THEN site.batch_log_pdf
                    ELSE site.batch_log_pdf - Node(yielded[2], name).score_parts[1]

\* C10: when a particle after the first fails in the generator, the backward
\* passes and mark_params_active calls of the earlier particles stay
\* applied: the gradient accumulators hold one contribution per earlier
\* backward pass for each of its parameters, so they differ from their
\* state before the call, and no loss is returned.
C10_NoRollbackOnFailure ==
    (mode = "loss_and_grads" /\ pc = "raised"
        /\ \E k \in 1..Len(log) : log[k].ev = "backward") =>
        /\ ret = <<"none">>
        /\ grads # [t \in Tensors |-> 0]
        /\ \A t \in Tensors :
              grads[t] = Cardinality({k \in EventsNamed("mark") : t \in log[k].arg})
        /\ \A k \in EventsNamed("mark") : log[k].arg \subseteq active

\* The second particle fails a check after the first ran its backward pass.
C10_Witness ==
    /\ mode = "loss_and_grads" /\ pc = "raised" /\ i = 1
    /\ err \in {"mismatch", "shape"}
    /\ EventsOf(0, "backward") # {}

====
